---- MODULE Spec2Model ----
(***************************************************************************)
(* Semantic indexing and similarity search of guardian-ai (package lemma). *)
(*                                                                         *)
(* State: the three SQLite tables of create_tables.py, the FAISS index     *)
(* files under bin/, and the outcome of the last call.  Operations:        *)
(* create_vector_indexes (build), search_similar_code (search) and         *)
(* delete_all_embeddings, each as one atomic step of a single connection.  *)
(*                                                                         *)
(* The embedding service is outside the repository: create_embeddings      *)
(* returns the vectors of the service call as they come (one per text)     *)
(* and returns [] when the call raises.  embed_text fixes the service's    *)
(* answer per text: the all-zero vector for the empty text (the answer of  *)
(* the checked-in stand-in for every text), two non-zero vectors, and an   *)
(* empty answer; service_up says whether the call goes through.            *)
(*                                                                         *)
(* Chunk ids (uuid4) are fresh numbers; file_chunk_embeddings is kept in   *)
(* rowid order; positions of an index and faiss_index are 0-based as in    *)
(* the code, label -1 is the padding entry of a k-NN answer.  last is the  *)
(* outcome of the last call: its arguments, return value or exception,     *)
(* and whether it called create_embeddings or read the tables.             *)
(***************************************************************************)
EXTENDS Integers, Sequences, FiniteSets, TLC

\* ---------------------------------------------------------------- bounds
MaxChunks == 2
MaxChunkIds == 2
MaxK == 2
MaxChars == 8
MaxChunkSize == 2
MaxTexts == 3

Projects == {"p1", "p2"}
Texts == {"", "a", "b", "bad"}

VARIABLES file_chunks, file_chunk_embeddings, faiss_index_mapping,
          index_files, next_id, last, calls

vars == <<file_chunks, file_chunk_embeddings, faiss_index_mapping,
          index_files, next_id, last, calls>>

\* ---------------------------------------------------------------- helpers
Min(a, b) == IF a <= b THEN a ELSE b

RECURSIVE SumSq(_, _, _)
SumSq(a, b, i) ==
    IF i > Len(a) THEN 0
    ELSE (a[i] - b[i]) * (a[i] - b[i]) + SumSq(a, b, i + 1)

\* squared Euclidean distance, the metric of faiss.IndexFlatL2
L2sqr(a, b) == SumSq(a, b, 1)

\* np.linalg.norm(arr) == 0
norm_is_zero(arr) == \A i \in 1..Len(arr) : arr[i] = 0

\* the answer of the embedding service for one text: the zero vector, a
\* non-zero vector, or <<>> for an empty response
embed_text(text) ==
    CASE text = ""  -> <<0>>
      [] text = "a" -> <<1>>
      [] text = "b" -> <<3>>
      [] OTHER      -> <<>>

\* variant: the vectors come back in reverse order
create_embeddings_Reversed(texts, service_up) ==
    IF service_up
    THEN [i \in 1..Len(texts) |-> embed_text(texts[Len(texts) + 1 - i])]
    ELSE <<>>

\* variant: a failing service is answered with zero vectors instead of []
create_embeddings_zero_on_failure(texts, service_up) ==
    [i \in 1..Len(texts) |-> IF service_up THEN embed_text(texts[i]) ELSE <<0>>]

\* create_embeddings: one vector per text, or [] when the service raised
create_embeddings(texts, service_up) ==
    IF service_up
    THEN [i \in 1..Len(texts) |-> embed_text(texts[i])]
    ELSE <<>>

\* os.path.join("bin", f"{project_id}_index.faiss")
index_file_path(project_id) == <<"bin", project_id, "_index.faiss">>

Paths == {index_file_path(p) : p \in Projects}

MaxOf(S) == CHOOSE m \in S : \A x \in S : x <= m

\* distance FAISS reports for a padding entry: larger than any distance
\* between two vectors of the service
PadDistance ==
    1 + MaxOf({L2sqr(embed_text(st[1]), embed_text(st[2])) :
                 st \in {uv \in Texts \X Texts :
                            Len(embed_text(uv[1])) = Len(embed_text(uv[2]))}})

\* os.path.exists(index_file) is false
NoFile == [exists |-> FALSE, d |-> 0, vectors |-> <<>>]

\* result of a call that has not happened yet / fields a call does not set
NoCall ==
    [op |-> "none", project_id |-> "", outcome |-> "", error |-> "",
     chunks |-> <<>>, service_up |-> TRUE, first_id |-> 0,
     query_text |-> "", top_k |-> 0, I |-> <<>>, results |-> <<>>,
     embedded |-> FALSE, db_read |-> FALSE, index_file |-> <<>>,
     repo |-> <<>>, max_chunk_size |-> 0, ignore_tests |-> FALSE,
     all_chunks |-> <<>>, texts |-> <<>>, embeddings |-> <<>>]

\* the calls in progress when calls are run step by step: none
NoCalls == <<>>

Init ==
    /\ file_chunks = <<>>
    /\ file_chunk_embeddings = <<>>
    /\ faiss_index_mapping = {}
    /\ index_files = [f \in Paths |-> NoFile]
    /\ next_id = 1
    /\ calls = NoCalls
    /\ last = NoCall


\* ---------------------------------------------------------------- inputs
\* chunk lists as segment_codebase shapes them, one file, chunk_index 0..
ChunkList(texts) ==
    [i \in 1..Len(texts) |->
        [file_path |-> "f.py", chunk_index |-> i - 1, chunk_text |-> texts[i]]]

ChunkLists ==
    {ChunkList(ts) : ts \in UNION {[1..n -> Texts] : n \in 0..MaxChunks}}

RepoPath == "/tmp/repo"

\* ---------------------------------------------------------------- build
\* the rows of file_chunks the loop inserts, one per input chunk
ChunkRows(project_id, all_chunks, first_id) ==
    [i \in 1..Len(all_chunks) |->
        [id |-> first_id + i - 1,
         project_id |-> project_id,
         repo_path |-> RepoPath,
         file_path |-> all_chunks[i].file_path,
         chunk_index |-> all_chunks[i].chunk_index,
         chunk_text |-> all_chunks[i].chunk_text]]

\* chunk_id and vector of every iteration of the loop
LoopItems(embeddings, first_id) ==
    [i \in 1..Len(embeddings) |->
        [chunk_id |-> first_id + i - 1, vector |-> embeddings[i]]]

\* iterations that pass the dimension check and insert an embedding row
DimensionOk(items, dim) ==
    SelectSeq(items, LAMBDA it : Len(it.vector) = dim)

EmbeddingRows(items, dim) ==
    LET ok == DimensionOk(items, dim)
    IN  [j \in 1..Len(ok) |->
            [chunk_id |-> ok[j].chunk_id,
             embedding |-> ok[j].vector,
             embedding_dim |-> dim]]

\* variant: zero vectors are not skipped
Indexed_KeepZero(items, dim) == DimensionOk(items, dim)

\* iterations that reach faiss_vectors.append / faiss_index_map.append
Indexed(items, dim) ==
    SelectSeq(DimensionOk(items, dim), LAMBDA it : ~norm_is_zero(it.vector))

\* variant: positions counted from 1
MappingRows_OneBased(project_id, faiss_index_map) ==
    {[project_id |-> project_id,
      faiss_index |-> i,
      chunk_id |-> faiss_index_map[i]] : i \in 1..Len(faiss_index_map)}

\* rows written by the final loop over enumerate(faiss_index_map)
MappingRows(project_id, faiss_index_map) ==
    {[project_id |-> project_id,
      faiss_index |-> i - 1,
      chunk_id |-> faiss_index_map[i]] : i \in 1..Len(faiss_index_map)}

\* variant: the DELETE removes the rows of every project
ClearMapping_AllProjects(mapping, project_id) == {}

\* variant: the rebuild appends, the DELETE is missing
ClearMapping_Append(mapping, project_id) == mapping

\* DELETE FROM faiss_index_mapping WHERE project_id = ?
ClearMapping(mapping, project_id) ==
    {m \in mapping : m.project_id # project_id}

\* variant: the insert replaces the rows the table held
InsertRows_Replace(table, rows) == rows

\* INSERT INTO: the new rows follow the rows the table holds
InsertRows(table, rows) == table \o rows

create_vector_indexes(project_id, all_chunks, service_up) ==
    LET texts      == [i \in 1..Len(all_chunks) |-> all_chunks[i].chunk_text]
        embeddings == create_embeddings(texts, service_up)
        cleared    == ClearMapping(faiss_index_mapping, project_id)
        call       == [NoCall EXCEPT !.op = "build",
                                     !.project_id = project_id,
                                     !.chunks = all_chunks,
                                     !.service_up = service_up,
                                     !.first_id = next_id,
                                     !.embedded = TRUE]
    IN
    /\ next_id + Len(all_chunks) - 1 <= MaxChunkIds
    /\ IF embeddings = <<>>
       THEN /\ faiss_index_mapping' = cleared
            /\ last' = [call EXCEPT !.outcome = "raise",
                                    !.error = "ValueError: No embeddings generated"]
            /\ UNCHANGED <<file_chunks, file_chunk_embeddings,
                           index_files, next_id>>
       ELSE LET dim     == Len(embeddings[1])
                items   == LoopItems(embeddings, next_id)
                indexed == Indexed(items, dim)
                faiss_vectors   == [j \in 1..Len(indexed) |-> indexed[j].vector]
                faiss_index_map == [j \in 1..Len(indexed) |-> indexed[j].chunk_id]
                index_file      == index_file_path(project_id)
            IN
            /\ file_chunks' =
                 InsertRows(file_chunks,
                            ChunkRows(project_id, all_chunks, next_id))
            /\ file_chunk_embeddings' =
                 InsertRows(file_chunk_embeddings, EmbeddingRows(items, dim))
            /\ next_id' = next_id + Len(all_chunks)
            /\ IF faiss_vectors = <<>>
               THEN /\ faiss_index_mapping' = cleared
                    /\ UNCHANGED index_files
                    /\ last' = [call EXCEPT
                                  !.outcome = "raise",
                                  !.error = "ValueError: No valid embeddings"]
               ELSE /\ index_files' =
                         [index_files EXCEPT
                            ![index_file] = [exists |-> TRUE, d |-> dim,
                                              vectors |-> faiss_vectors]]
                    /\ faiss_index_mapping' =
                         cleared \cup MappingRows(project_id, faiss_index_map)
                    /\ last' = [call EXCEPT !.outcome = "return",
                                            !.index_file = index_file]

Build ==
    \E project_id \in Projects, all_chunks \in ChunkLists, service_up \in BOOLEAN :
        /\ create_vector_indexes(project_id, all_chunks, service_up)
        /\ UNCHANGED calls

\* ---------------------------------------------------------------- search
\* variant: the nearest positions are reported farthest first
index_search_FarthestFirst(index, query_vec, k) ==
    LET ntotal == Len(index.vectors)
        m      == Min(k, ntotal)
        dist(pos) == L2sqr(index.vectors[pos + 1], query_vec)
        nearest == {o \in [1..m -> 0..(ntotal - 1)] :
                      /\ \A i \in 1..m, j \in 1..m : i # j => o[i] # o[j]
                      /\ \A i \in 1..(m - 1) : dist(o[i]) >= dist(o[i + 1])
                      /\ \A pos \in 0..(ntotal - 1) :
                            (\A i \in 1..m : o[i] # pos)
                                => \A i \in 1..m : dist(o[i]) <= dist(pos)}
    IN  {[D |-> [j \in 1..k |-> IF j <= m THEN dist(o[j]) ELSE PadDistance],
          I |-> [j \in 1..k |-> IF j <= m THEN o[j] ELSE -1]] : o \in nearest}

\* index.search(query, k) of a flat L2 index: the min(k, ntotal) nearest
\* positions (0-based), nearest first, ties in any order, then padding
\* entries with label -1
index_search(index, query_vec, k) ==
    LET ntotal == Len(index.vectors)
        m      == Min(k, ntotal)
        dist(pos) == L2sqr(index.vectors[pos + 1], query_vec)
        nearest == {o \in [1..m -> 0..(ntotal - 1)] :
                      /\ \A i \in 1..m, j \in 1..m : i # j => o[i] # o[j]
                      /\ \A i \in 1..(m - 1) : dist(o[i]) <= dist(o[i + 1])
                      /\ \A pos \in 0..(ntotal - 1) :
                            (\A i \in 1..m : o[i] # pos)
                                => \A i \in 1..m : dist(o[i]) <= dist(pos)}
    IN  {[D |-> [j \in 1..k |-> IF j <= m THEN dist(o[j]) ELSE PadDistance],
          I |-> [j \in 1..k |-> IF j <= m THEN o[j] ELSE -1]] : o \in nearest}

\* Python list indexing: a negative index counts from the end
PyIndex(list, idx) ==
    IF idx >= 0 THEN list[idx + 1] ELSE list[Len(list) + idx + 1]

\* variant: the WHERE clause on the project is missing
chunk_id_in_order_AnyProject(project_id) ==
    [j \in 1..Len(file_chunk_embeddings) |-> file_chunk_embeddings[j].chunk_id]

\* SELECT rowid, chunk_id FROM file_chunk_embeddings WHERE chunk_id IN
\* (SELECT id FROM file_chunks WHERE project_id=?) ORDER BY rowid ASC
chunk_id_in_order(project_id) ==
    LET rows == SelectSeq(file_chunk_embeddings,
                    LAMBDA e : \E c \in 1..Len(file_chunks) :
                                  /\ file_chunks[c].id = e.chunk_id
                                  /\ file_chunks[c].project_id = project_id)
    IN  [j \in 1..Len(rows) |-> rows[j].chunk_id]

\* SELECT ... FROM file_chunks WHERE id=? has a row
ChunkExists(chunk_id) ==
    \E c \in 1..Len(file_chunks) : file_chunks[c].id = chunk_id

ChunkRow(chunk_id) ==
    file_chunks[CHOOSE c \in 1..Len(file_chunks) : file_chunks[c].id = chunk_id]

\* chunk_id_in_order[idx_val] raises IndexError
OutOfRange(list, idx) == idx >= Len(list) \/ idx < 0 - Len(list)

\* chunk_id a FAISS label is resolved to
ResolveIndex(order, idx_val) == PyIndex(order, idx_val)

\* some iteration passes "idx_val < len(chunk_id_in_order)" and then indexes
\* outside the list
LookupRaises(project_id, knn) ==
    LET order == chunk_id_in_order(project_id)
    IN  \E j \in 1..Len(knn.I) :
            /\ knn.I[j] < Len(order)
            /\ OutOfRange(order, knn.I[j])

\* the loop over zip(D[0], I[0])
SearchResults(project_id, knn) ==
    LET order == chunk_id_in_order(project_id)
        pairs == [j \in 1..Len(knn.I) |-> [dist |-> knn.D[j], idx_val |-> knn.I[j]]]
        hits  == SelectSeq(pairs,
                    LAMBDA pr : /\ pr.idx_val < Len(order)
                                /\ ChunkExists(ResolveIndex(order, pr.idx_val)))
    IN  [j \in 1..Len(hits) |->
            LET chunk_id == ResolveIndex(order, hits[j].idx_val)
                row      == ChunkRow(chunk_id)
            IN  [chunk_id |-> chunk_id,
                 project_id |-> row.project_id,
                 file_path |-> row.file_path,
                 chunk_index |-> row.chunk_index,
                 chunk_text |-> row.chunk_text,
                 distance |-> hits[j].dist,
                 faiss_idx |-> hits[j].idx_val]]

\* variant: the existence check always passes
path_exists_Always(index_file) == TRUE

\* os.path.exists(index_file)
path_exists(index_file) == index_files[index_file].exists

search_similar_code(project_id, query_text, top_k, service_up) ==
    LET index_file == index_file_path(project_id)
        call       == [NoCall EXCEPT !.op = "search",
                                     !.project_id = project_id,
                                     !.query_text = query_text,
                                     !.top_k = top_k,
                                     !.service_up = service_up]
    IN
    /\ UNCHANGED <<file_chunks, file_chunk_embeddings, faiss_index_mapping,
                   index_files, next_id, calls>>
    /\ IF ~path_exists(index_file)
       THEN last' = [call EXCEPT !.outcome = "raise",
                                 !.error = "FileNotFoundError"]
       ELSE LET embed_vecs == create_embeddings(<<query_text>>, service_up)
                index      == index_files[index_file]
            IN
            IF embed_vecs = <<>>
            THEN last' = [call EXCEPT !.outcome = "return", !.embedded = TRUE]
            ELSE IF Len(embed_vecs[1]) # index.d
            THEN last' = [call EXCEPT !.outcome = "raise",
                                      !.error = "AssertionError",
                                      !.embedded = TRUE]
            ELSE \E knn \in index_search(index, embed_vecs[1], top_k) :
                    IF LookupRaises(project_id, knn)
                    THEN last' = [call EXCEPT !.outcome = "raise",
                                              !.error = "IndexError",
                                              !.embedded = TRUE,
                                              !.db_read = TRUE,
                                              !.I = knn.I]
                    ELSE
                    last' = [call EXCEPT
                               !.outcome = "return",
                               !.embedded = TRUE,
                               !.db_read = TRUE,
                               !.I = knn.I,
                               !.results = SearchResults(project_id, knn)]

Search ==
    \E project_id \in Projects, query_text \in Texts, top_k \in 1..MaxK,
       service_up \in BOOLEAN :
        search_similar_code(project_id, query_text, top_k, service_up)

\* ---------------------------------------------------------------- delete
delete_all_embeddings ==
    /\ file_chunks # <<>>
    /\ faiss_index_mapping' = {}
    /\ file_chunk_embeddings' = <<>>
    /\ file_chunks' = <<>>
    /\ last' = [NoCall EXCEPT !.op = "delete", !.outcome = "return"]
    /\ UNCHANGED <<index_files, next_id, calls>>

\* the absent project id (Python None)
None == "None"

\* lemma.db.get_project: the statement names the column project.id of a table
\* "project" that the FROM clause (projects) does not provide, so sqlite3
\* rejects it for every id and every database; the handler re-raises it
get_project(project_id) ==
    [raises |-> TRUE,
     error |-> "Error: Database error: no such column: project.id"]

\* commands.create_embeddings_index: the command behind build_index.  The
\* steps after the project lookup (clone, segment, create_vector_indexes,
\* rmtree) are never reached, because the lookup raises for every id.
create_embeddings_index(project_id) ==
    /\ IF project_id = None
       THEN last' = [NoCall EXCEPT !.op = "index", !.project_id = project_id,
                                   !.outcome = "return"]
       ELSE LET project == get_project(project_id) IN
            /\ project.raises
            /\ last' = [NoCall EXCEPT !.op = "index",
                                      !.project_id = project_id,
                                      !.outcome = "raise",
                                      !.error = project.error,
                                      !.db_read = TRUE]
    /\ UNCHANGED <<file_chunks, file_chunk_embeddings, faiss_index_mapping,
                   index_files, next_id, calls>>

IndexCommand == \E project_id \in Projects \cup {None} :
                    create_embeddings_index(project_id)

Next == Build \/ Search \/ delete_all_embeddings \/ IndexCommand

Spec == Init /\ [][Next]_vars

\* ------------------------------------------- the calls on fewer inputs
\* The same calls as in Spec, with the chunk texts and the query taken from
\* three texts: one the service answers with a vector, one it answers with
\* the zero vector, one it answers with no vector.
ScopedTexts == {"", "a", "bad"}

ScopedChunkLists ==
    {ChunkList(ts) : ts \in UNION {[1..n -> ScopedTexts] : n \in 0..MaxChunks}}

ScopedBuild ==
    \E project_id \in Projects, all_chunks \in ScopedChunkLists,
       service_up \in BOOLEAN :
        /\ create_vector_indexes(project_id, all_chunks, service_up)
        /\ UNCHANGED calls

ScopedSearch ==
    \E project_id \in Projects, top_k \in 1..MaxK, service_up \in BOOLEAN :
        search_similar_code(project_id, "a", top_k, service_up)

NextScoped == ScopedBuild \/ ScopedSearch \/ delete_all_embeddings

SpecScoped == Init /\ [][NextScoped]_vars

\* ------------------------------------------------------------- embedding
TextLists == UNION {[1..n -> Texts] : n \in 0..MaxTexts}

\* a call of create_embeddings about to be made: its argument, and whether
\* the service call will go through
InitEmbed ==
    /\ file_chunks = <<>>
    /\ file_chunk_embeddings = <<>>
    /\ faiss_index_mapping = {}
    /\ index_files = [f \in Paths |-> NoFile]
    /\ next_id = 1
    /\ calls = NoCalls
    /\ \E texts \in TextLists, service_up \in BOOLEAN :
            last = [NoCall EXCEPT !.op = "embed", !.texts = texts,
                                  !.service_up = service_up]

\* create_embeddings never raises: the except clause returns []
Embed ==
    /\ last.op = "embed"
    /\ last.outcome = ""
    /\ last' = [last EXCEPT
                  !.outcome = "return",
                  !.embedded = TRUE,
                  !.embeddings = create_embeddings(last.texts, last.service_up)]
    /\ UNCHANGED <<file_chunks, file_chunk_embeddings,
                   faiss_index_mapping, index_files, next_id, calls>>

SpecEmbed == InitEmbed /\ [][Embed]_vars


\* ------------------------------------------------ calls run step by step
\* Builds and a search on connections of their own.  A step is what the
\* other connections can see at once: the statements up to a commit, the
\* writing of the index file, the reading of the index file, one query.
Builders == {"A", "B"}

Searcher == "S"

\* the chunk lists handed to the builds: no chunk, one chunk whose vector
\* is zero, one chunk whose vector is indexed
StepChunkLists == {ChunkList(ts) : ts \in {<<>>, <<"">>, <<"a">>}}

\* the query texts and top_k of the searches
StepQueries == {"a"}

StepTopK == {1}

\* the builds and the search work on the same project
StepProjects == {"p1"}

IdleBuild ==
    [pc |-> "idle", project_id |-> "", all_chunks |-> <<>>,
     service_up |-> TRUE, embeddings |-> <<>>, dim |-> 0, first_id |-> 0,
     faiss_vectors |-> <<>>, faiss_index_map |-> <<>>,
     outcome |-> "", error |-> ""]

IdleSearch ==
    [pc |-> "idle", project_id |-> "", query_text |-> "", top_k |-> 0,
     service_up |-> TRUE, index |-> NoFile, I |-> <<>>, results |-> <<>>,
     outcome |-> "", error |-> ""]

InitSteps ==
    /\ file_chunks = <<>>
    /\ file_chunk_embeddings = <<>>
    /\ faiss_index_mapping = {}
    /\ index_files = [f \in Paths |-> NoFile]
    /\ next_id = 1
    /\ last = NoCall
    /\ calls = [c \in Builders \cup {Searcher} |->
                  IF c \in Builders THEN IdleBuild ELSE IdleSearch]

\* variant: the connection does not enforce foreign keys
ForeignKeyOk_NotEnforced(chunk_ids) == TRUE

\* PRAGMA foreign_keys = ON: every chunk_id inserted into
\* faiss_index_mapping must be the id of a file_chunks row
ForeignKeyOk(chunk_ids) ==
    \A j \in 1..Len(chunk_ids) : ChunkExists(chunk_ids[j])

\* PRIMARY KEY (project_id, faiss_index) of faiss_index_mapping
PrimaryKeyOk(rows) ==
    \A r \in rows : \A m \in faiss_index_mapping :
        ~(m.project_id = r.project_id /\ m.faiss_index = r.faiss_index)

\* create_embeddings_tables, DELETE FROM faiss_index_mapping, commit
build_clear(b) ==
    /\ calls[b].pc \in {"idle", "done"}
    /\ \E project_id \in StepProjects, all_chunks \in StepChunkLists,
          service_up \in BOOLEAN :
            calls' = [calls EXCEPT ![b] =
                        [IdleBuild EXCEPT !.pc = "embed",
                                          !.project_id = project_id,
                                          !.all_chunks = all_chunks,
                                          !.service_up = service_up]]
    /\ faiss_index_mapping' =
          ClearMapping(faiss_index_mapping, calls'[b].project_id)
    /\ UNCHANGED <<file_chunks, file_chunk_embeddings, index_files,
                   next_id, last>>

\* create_embeddings(texts), "if not embeddings: raise", dim
build_embed(b) ==
    LET call       == calls[b]
        texts      == [i \in 1..Len(call.all_chunks) |->
                          call.all_chunks[i].chunk_text]
        embeddings == create_embeddings(texts, call.service_up)
    IN
    /\ call.pc = "embed"
    /\ calls' = [calls EXCEPT ![b] =
                   IF embeddings = <<>>
                   THEN [call EXCEPT
                           !.pc = "done", !.outcome = "raise",
                           !.error = "ValueError: No embeddings generated"]
                   ELSE [call EXCEPT !.pc = "insert",
                                     !.embeddings = embeddings,
                                     !.dim = Len(embeddings[1])]]
    /\ UNCHANGED <<file_chunks, file_chunk_embeddings, faiss_index_mapping,
                   index_files, next_id, last>>

\* the loop over the chunks and its commit, "if not faiss_vectors: raise"
build_insert(b) ==
    LET call    == calls[b]
        items   == LoopItems(call.embeddings, next_id)
        indexed == Indexed(items, call.dim)
        faiss_vectors   == [j \in 1..Len(indexed) |-> indexed[j].vector]
        faiss_index_map == [j \in 1..Len(indexed) |-> indexed[j].chunk_id]
    IN
    /\ call.pc = "insert"
    /\ next_id + Len(call.all_chunks) - 1 <= MaxChunkIds
    /\ file_chunks' =
          InsertRows(file_chunks,
                     ChunkRows(call.project_id, call.all_chunks, next_id))
    /\ file_chunk_embeddings' =
          InsertRows(file_chunk_embeddings, EmbeddingRows(items, call.dim))
    /\ next_id' = next_id + Len(call.all_chunks)
    /\ calls' = [calls EXCEPT ![b] =
                   IF faiss_vectors = <<>>
                   THEN [call EXCEPT
                           !.pc = "done", !.outcome = "raise",
                           !.first_id = next_id,
                           !.error = "ValueError: No valid embeddings"]
                   ELSE [call EXCEPT !.pc = "write",
                                     !.first_id = next_id,
                                     !.faiss_vectors = faiss_vectors,
                                     !.faiss_index_map = faiss_index_map]]
    /\ UNCHANGED <<faiss_index_mapping, index_files, last>>

\* variant: the index is written before the vectors are added to it
build_write_EmptyIndex(b) ==
    /\ calls[b].pc = "write"
    /\ index_files' =
          [index_files EXCEPT
             ![index_file_path(calls[b].project_id)] =
                [exists |-> TRUE, d |-> calls[b].dim,
                 vectors |-> <<>>, ids |-> <<>>]]
    /\ calls' = [calls EXCEPT ![b] = [calls[b] EXCEPT !.pc = "map"]]
    /\ UNCHANGED <<file_chunks, file_chunk_embeddings, faiss_index_mapping,
                   next_id, last>>

\* faiss.write_index(index, index_file); ids is not part of the file: it
\* names the chunk whose vector the run put at each position
build_write(b) ==
    LET call == calls[b] IN
    /\ call.pc = "write"
    /\ index_files' =
          [index_files EXCEPT
             ![index_file_path(call.project_id)] =
                [exists |-> TRUE, d |-> call.dim,
                 vectors |-> call.faiss_vectors,
                 ids |-> call.faiss_index_map]]
    /\ calls' = [calls EXCEPT ![b] = [call EXCEPT !.pc = "map"]]
    /\ UNCHANGED <<file_chunks, file_chunk_embeddings, faiss_index_mapping,
                   next_id, last>>

\* the INSERTs into faiss_index_mapping and their commit; the first INSERT
\* that breaks a constraint raises sqlite3.IntegrityError
build_map(b) ==
    LET call == calls[b]
        rows == MappingRows(call.project_id, call.faiss_index_map)
    IN
    /\ call.pc = "map"
    /\ IF PrimaryKeyOk(rows) /\ ForeignKeyOk(call.faiss_index_map)
       THEN /\ faiss_index_mapping' = faiss_index_mapping \cup rows
            /\ calls' = [calls EXCEPT ![b] =
                           [call EXCEPT !.pc = "done", !.outcome = "return"]]
       ELSE /\ UNCHANGED faiss_index_mapping
            /\ calls' = [calls EXCEPT ![b] =
                           [call EXCEPT !.pc = "done", !.outcome = "raise",
                                        !.error = "IntegrityError"]]
    /\ UNCHANGED <<file_chunks, file_chunk_embeddings, index_files,
                   next_id, last>>

\* os.path.exists(index_file), faiss.read_index(index_file)
search_load ==
    /\ calls[Searcher].pc \in {"idle", "done"}
    /\ \E project_id \in StepProjects, query_text \in StepQueries,
          top_k \in StepTopK, service_up \in {TRUE} :
            LET call == [IdleSearch EXCEPT !.project_id = project_id,
                                           !.query_text = query_text,
                                           !.top_k = top_k,
                                           !.service_up = service_up]
                index_file == index_file_path(project_id)
            IN calls' = [calls EXCEPT ![Searcher] =
                           IF ~path_exists(index_file)
                           THEN [call EXCEPT !.pc = "done",
                                             !.outcome = "raise",
                                             !.error = "FileNotFoundError"]
                           ELSE [call EXCEPT !.pc = "loaded",
                                             !.index = index_files[index_file]]]
    /\ UNCHANGED <<file_chunks, file_chunk_embeddings, faiss_index_mapping,
                   index_files, next_id, last>>

\* create_embeddings([query_text]), index.search on the index that was
\* read, the SELECT over file_chunk_embeddings and the chunk lookups
search_lookup ==
    LET call       == calls[Searcher]
        embed_vecs == create_embeddings(<<call.query_text>>, call.service_up)
    IN
    /\ call.pc = "loaded"
    /\ IF embed_vecs = <<>>
       THEN calls' = [calls EXCEPT ![Searcher] =
                        [call EXCEPT !.pc = "done", !.outcome = "return"]]
       ELSE IF Len(embed_vecs[1]) # call.index.d
       THEN calls' = [calls EXCEPT ![Searcher] =
                        [call EXCEPT !.pc = "done", !.outcome = "raise",
                                     !.error = "AssertionError"]]
       ELSE \E knn \in index_search(call.index, embed_vecs[1], call.top_k) :
               calls' = [calls EXCEPT ![Searcher] =
                           IF LookupRaises(call.project_id, knn)
                           THEN [call EXCEPT !.pc = "done",
                                             !.outcome = "raise",
                                             !.error = "IndexError",
                                             !.I = knn.I]
                           ELSE [call EXCEPT
                                   !.pc = "done", !.outcome = "return",
                                   !.I = knn.I,
                                   !.results =
                                      SearchResults(call.project_id, knn)]]
    /\ UNCHANGED <<file_chunks, file_chunk_embeddings, faiss_index_mapping,
                   index_files, next_id, last>>

BuildStep ==
    \E b \in Builders :
        \/ build_clear(b)
        \/ build_embed(b)
        \/ build_insert(b)
        \/ build_write(b)
        \/ build_map(b)

\* delete_all_embeddings: the three DELETEs and their commit
DeleteStep ==
    /\ file_chunks # <<>>
    /\ faiss_index_mapping' = {}
    /\ file_chunk_embeddings' = <<>>
    /\ file_chunks' = <<>>
    /\ UNCHANGED <<index_files, next_id, last, calls>>

NextSteps == BuildStep \/ search_load \/ search_lookup \/ DeleteStep

SpecSteps == InitSteps /\ [][NextSteps]_vars

\* ---------------------------------------------------------- segmentation
\* A file's content is a sequence of characters; a line ends after "\n".
Chars == {"a", "\n"}

RECURSIVE TextsUpTo(_)
TextsUpTo(n) ==
    IF n = 0 THEN {<<>>}
    ELSE LET shorter == TextsUpTo(n - 1) IN
         shorter \cup {Append(t, c) : t \in {u \in shorter : Len(u) = n - 1},
                                      c \in Chars}

\* f.readlines(): the lines of the file, each with its line end
RECURSIVE readlines(_)
readlines(text) ==
    IF text = <<>> THEN <<>>
    ELSE LET ends == {i \in 1..Len(text) : text[i] = "\n"}
             stop == IF ends = {} THEN Len(text)
                     ELSE CHOOSE i \in ends : \A j \in ends : i <= j
         IN <<SubSeq(text, 1, stop)>>
                \o readlines(SubSeq(text, stop + 1, Len(text)))

\* "".join(chunk_lines)
RECURSIVE join(_)
join(chunk_lines) ==
    IF chunk_lines = <<>> THEN <<>>
    ELSE Head(chunk_lines) \o join(Tail(chunk_lines))

\* variant: the slice takes one line more, which the next chunk repeats
Slice_Overlapping(lines, chunk_start, chunk_end) ==
    SubSeq(lines, chunk_start + 1, Min(chunk_end + 1, Len(lines)))

\* a slice bound as Python reads it: a negative bound counts from the end,
\* and the bound is clipped to 0..len
SliceBound(lines, i) ==
    IF i < 0 THEN (IF i + Len(lines) < 0 THEN 0 ELSE i + Len(lines))
    ELSE Min(i, Len(lines))

\* lines[chunk_start:chunk_end] (0-based, end exclusive)
Slice(lines, chunk_start, chunk_end) ==
    SubSeq(lines, SliceBound(lines, chunk_start) + 1,
           SliceBound(lines, chunk_end))

\* the directories of the cloned repository, in the order os.walk yields
\* them (top-down); <<>> is the repository root
Tree == << <<>>, <<".git">>, <<".git", "hooks">>, <<"src">> >>

FileNames == {"m.py", "test_m.py", "logo.png"}

\* a file that open() or readlines() fails on has readable = FALSE
File(name, readable, text) ==
    [name |-> name, readable |-> readable, text |-> text]

\* repositories with one source file of any content at the root
OneFileRepos ==
    {[i \in DOMAIN Tree |-> IF i = 1 THEN <<File("m.py", TRUE, text)>>
                            ELSE <<>>] : text \in TextsUpTo(MaxChars)}

\* repositories with at most one file in each directory
SmallFiles ==
    {File(name, readable, <<"a", "\n", "a">>) :
        name \in FileNames, readable \in BOOLEAN}

SpreadRepos == [DOMAIN Tree -> {<<>>} \cup {<<f>> : f \in SmallFiles}]

Repos == OneFileRepos \cup SpreadRepos

\* os.walk(repo_path): every directory of the tree with its files
os_walk(repo) ==
    [i \in DOMAIN Tree |-> [root |-> Tree[i], files |-> repo[i]]]

\* root.endswith(".git"), for the directory names of Tree
endswith_git(root) == root # <<>> /\ root[Len(root)] \in {".git"}

\* lemma.detect.is_ignored_file, for the names of FileNames: a name that
\* ends with one of the ignored extensions (".png" among them)
is_ignored_file(filename) == filename \in {"logo.png"}

\* "test" in filename.lower(), for the names of FileNames
contains_test(filename) == filename \in {"test_m.py"}

\* the while loop of one file
RECURSIVE chunk_loop(_, _, _, _, _)
chunk_loop(rel_path, lines, max_chunk_size, chunk_start, chunk_index) ==
    IF ~(chunk_start < Len(lines)) THEN <<>>
    ELSE LET chunk_end   == chunk_start + max_chunk_size
             chunk_lines == Slice(lines, chunk_start, chunk_end)
             chunk_text  == join(chunk_lines)
         IN <<[file_path |-> rel_path, chunk_index |-> chunk_index,
               chunk_text |-> chunk_text]>>
                \o chunk_loop(rel_path, lines, max_chunk_size,
                              chunk_end, chunk_index + 1)

\* variant: chunk_index counts from 1
segment_file_IndexFromOne(root, file, max_chunk_size, ignore_tests) ==
    LET rel_path == Append(root, file.name) IN
    IF is_ignored_file(file.name) THEN <<>>
    ELSE IF ignore_tests /\ contains_test(file.name) THEN <<>>
    ELSE IF ~file.readable THEN <<>>
    ELSE chunk_loop(rel_path, readlines(file.text), max_chunk_size, 0, 1)

\* one iteration of "for filename in files"
segment_file(root, file, max_chunk_size, ignore_tests) ==
    LET rel_path == Append(root, file.name) IN
    IF is_ignored_file(file.name) THEN <<>>
    ELSE IF ignore_tests /\ contains_test(file.name) THEN <<>>
    ELSE IF ~file.readable THEN <<>>
    ELSE chunk_loop(rel_path, readlines(file.text), max_chunk_size, 0, 0)

RECURSIVE segment_files(_, _, _, _)
segment_files(root, files, max_chunk_size, ignore_tests) ==
    IF files = <<>> THEN <<>>
    ELSE segment_file(root, Head(files), max_chunk_size, ignore_tests)
            \o segment_files(root, Tail(files), max_chunk_size, ignore_tests)

\* one iteration of "for root, _, files in os.walk(repo_path)"
segment_dir(entry, max_chunk_size, ignore_tests) ==
    IF endswith_git(entry.root) THEN <<>>
    ELSE segment_files(entry.root, entry.files, max_chunk_size, ignore_tests)

RECURSIVE segment_walk(_, _, _)
segment_walk(walk, max_chunk_size, ignore_tests) ==
    IF walk = <<>> THEN <<>>
    ELSE segment_dir(Head(walk), max_chunk_size, ignore_tests)
            \o segment_walk(Tail(walk), max_chunk_size, ignore_tests)

\* variant: a file that cannot be read makes the call give up
segment_codebase_AbortOnUnreadable(repo, max_chunk_size, ignore_tests) ==
    IF \E i \in DOMAIN repo : \E j \in 1..Len(repo[i]) : ~repo[i][j].readable
    THEN <<>>
    ELSE segment_walk(os_walk(repo), max_chunk_size, ignore_tests)

segment_codebase(repo, max_chunk_size, ignore_tests) ==
    segment_walk(os_walk(repo), max_chunk_size, ignore_tests)

\* a call of segment_codebase about to be made: its arguments
InitSegment ==
    /\ file_chunks = <<>>
    /\ file_chunk_embeddings = <<>>
    /\ faiss_index_mapping = {}
    /\ index_files = [f \in Paths |-> NoFile]
    /\ next_id = 1
    /\ calls = NoCalls
    /\ \E repo \in Repos, max_chunk_size \in 1..MaxChunkSize,
          ignore_tests \in BOOLEAN :
            last = [NoCall EXCEPT !.op = "segment", !.repo = repo,
                                  !.max_chunk_size = max_chunk_size,
                                  !.ignore_tests = ignore_tests]

Segment ==
    /\ last.op = "segment"
    /\ last.outcome = ""
    /\ last' = [last EXCEPT
                  !.outcome = "return",
                  !.all_chunks = segment_codebase(last.repo,
                                                  last.max_chunk_size,
                                                  last.ignore_tests)]
    /\ UNCHANGED <<file_chunks, file_chunk_embeddings,
                   faiss_index_mapping, index_files, next_id, calls>>

SpecSegment == InitSegment /\ [][Segment]_vars

\* ------------------------------------------- the chunking loop, stepwise
\* The while loop of segment_codebase for one file, one iteration a step;
\* max_chunk_size is any integer the caller passes, zero and negative
\* included.  calls holds the loop's variables.
ChunkSizes == (0 - 1)..MaxChunkSize

InitLoop ==
    /\ file_chunks = <<>>
    /\ file_chunk_embeddings = <<>>
    /\ faiss_index_mapping = {}
    /\ index_files = [f \in Paths |-> NoFile]
    /\ next_id = 1
    /\ last = NoCall
    /\ \E text \in TextsUpTo(MaxChars), max_chunk_size \in ChunkSizes :
          calls = [pc |-> "while", lines |-> readlines(text),
                   max_chunk_size |-> max_chunk_size,
                   chunk_start |-> 0, chunk_index |-> 0, all_chunks |-> <<>>]

\* variant: a size below 1 is taken as 1
chunk_end_of_AtLeastOne(chunk_start, max_chunk_size) ==
    chunk_start + (IF max_chunk_size < 1 THEN 1 ELSE max_chunk_size)

\* chunk_end = chunk_start + max_chunk_size
chunk_end_of(chunk_start, max_chunk_size) == chunk_start + max_chunk_size

\* one pass through the body of "while chunk_start < len(lines)"; the
\* bound on chunk_index stops a loop that can only run on
loop_body ==
    LET chunk_end   == chunk_end_of(calls.chunk_start, calls.max_chunk_size)
        chunk_lines == Slice(calls.lines, calls.chunk_start, chunk_end)
        chunk_text  == join(chunk_lines)
    IN
    /\ calls.pc = "while"
    /\ calls.chunk_start < Len(calls.lines)
    /\ calls.chunk_index <= MaxChars
    /\ calls' = [calls EXCEPT
                   !.all_chunks = Append(@, [file_path |-> <<"m.py">>,
                                             chunk_index |-> calls.chunk_index,
                                             chunk_text |-> chunk_text]),
                   !.chunk_index = @ + 1,
                   !.chunk_start = chunk_end]
    /\ UNCHANGED <<file_chunks, file_chunk_embeddings, faiss_index_mapping,
                   index_files, next_id, last>>

\* the loop condition is false: the loop is left
loop_exit ==
    /\ calls.pc = "while"
    /\ ~(calls.chunk_start < Len(calls.lines))
    /\ calls' = [calls EXCEPT !.pc = "done"]
    /\ UNCHANGED <<file_chunks, file_chunk_embeddings, faiss_index_mapping,
                   index_files, next_id, last>>

NextLoop == loop_body \/ loop_exit

SpecLoop == InitLoop /\ [][NextLoop]_vars /\ WF_vars(NextLoop)

\* ------------------------------ the index command after its project lookup
\* commands.create_embeddings_index from the clone (line 56) on, a step for
\* each numbered part of its body.  These lines run once the lookup of line
\* 48 has returned a project row; calls holds the command's locals and
\* whether the cloned directory is on disk.
CommandMaxChunkSize == 200

\* the cloned repositories: a file or none at the root and in src
CommandFiles ==
    {File(name, readable, text) :
        name \in FileNames, readable \in BOOLEAN,
        text \in {<<>>, <<"a">>, <<"a", "\n", "a">>}}

CommandRepos ==
    {[i \in DOMAIN Tree |-> IF Tree[i] = <<>> THEN root
                            ELSE IF Tree[i] = <<"src">> THEN sub
                            ELSE <<>>] :
        root \in {<<>>} \cup {<<f>> : f \in CommandFiles},
        sub  \in {<<>>} \cup {<<f>> : f \in CommandFiles}}

\* the text of a chunk as the embedding service is asked about it
text_name(chunk_text) ==
    IF chunk_text = <<>> THEN ""
    ELSE IF chunk_text = <<"a">> THEN "a"
    ELSE "bad"

\* local_repo_path = clone_github_repo(repo_url) has returned
InitCommand ==
    /\ file_chunks = <<>>
    /\ file_chunk_embeddings = <<>>
    /\ faiss_index_mapping = {}
    /\ index_files = [f \in Paths |-> NoFile]
    /\ next_id = 1
    /\ last = NoCall
    /\ \E project_id \in Projects, repo \in CommandRepos,
          github_up \in BOOLEAN, service_up \in BOOLEAN :
          calls = [pc |-> "commit", project_id |-> project_id, repo |-> repo,
                   github_up |-> github_up, service_up |-> service_up,
                   local_repo_path |-> TRUE, all_chunks |-> <<>>,
                   outcome |-> "", error |-> ""]

CommandUnchanged ==
    UNCHANGED <<file_chunks, file_chunk_embeddings, faiss_index_mapping,
                index_files, next_id, last>>

\* 3. the latest commit is fetched from GitHub and stored in projects; an
\* exception of the fetch leaves the function
command_commit ==
    /\ calls.pc = "commit"
    /\ calls' = IF calls.github_up
                THEN [calls EXCEPT !.pc = "segment"]
                ELSE [calls EXCEPT !.pc = "done", !.outcome = "raise",
                                   !.error = "GithubException"]
    /\ CommandUnchanged

\* 4. segment_codebase(local_repo_path, max_chunk_size=200,
\* ignore_tests=True), and the ValueError on an empty result
command_segment ==
    LET all_chunks == segment_codebase(calls.repo, CommandMaxChunkSize, TRUE)
    IN
    /\ calls.pc = "segment"
    /\ calls' = IF all_chunks = <<>>
                THEN [calls EXCEPT
                        !.pc = "done", !.outcome = "raise",
                        !.error = "ValueError: No code chunks were generated"]
                ELSE [calls EXCEPT !.pc = "build", !.all_chunks = all_chunks]
    /\ CommandUnchanged

\* 5. create_vector_indexes(conn, project_id, local_repo_path, all_chunks);
\* what it raises leaves the function
command_build ==
    LET all_chunks ==
          [i \in 1..Len(calls.all_chunks) |->
              [calls.all_chunks[i] EXCEPT !.chunk_text = text_name(@)]]
    IN
    /\ calls.pc = "build"
    /\ create_vector_indexes(calls.project_id, all_chunks, calls.service_up)
    /\ calls' = IF last'.outcome = "raise"
                THEN [calls EXCEPT !.pc = "done", !.outcome = "raise",
                                   !.error = last'.error]
                ELSE [calls EXCEPT !.pc = "cleanup"]

\* shutil.rmtree(local_repo_path, ignore_errors=True): the directory is gone
rmtree(local_repo_path) == FALSE

\* the cleanup after a build that returned, and return index_path
command_cleanup ==
    /\ calls.pc = "cleanup"
    /\ calls' = [calls EXCEPT !.pc = "done", !.outcome = "return",
                              !.local_repo_path = rmtree(@)]
    /\ CommandUnchanged

NextCommand ==
    command_commit \/ command_segment \/ command_build \/ command_cleanup

SpecCommand == InitCommand /\ [][NextCommand]_vars

\* ------------------------------------------------- reviews and files (db)
\* src/db.py: the reviews and files tables and the three calls that write
\* them.  calls holds the two tables, the ids handed out so far (uuid4
\* never repeats one) and the outcome of the call just made.
MaxReviews == 3
MaxFiles == 3

ReviewIds == 1..MaxReviews

Names == {None, "n"}

InitReviews ==
    /\ file_chunks = <<>>
    /\ file_chunk_embeddings = <<>>
    /\ faiss_index_mapping = {}
    /\ index_files = [f \in Paths |-> NoFile]
    /\ next_id = 1
    /\ last = NoCall
    /\ calls = [reviews |-> <<>>, files |-> <<>>,
                next_review_id |-> 1, next_file_id |-> 1,
                op |-> "none", arg |-> 0, outcome |-> "", error |-> ""]

ReviewsUnchanged ==
    UNCHANGED <<file_chunks, file_chunk_embeddings, faiss_index_mapping,
                index_files, next_id, last>>

\* SELECT id FROM reviews WHERE id=?  finds a row
ReviewExists(reviews, review_id) ==
    \E i \in 1..Len(reviews) : reviews[i].id = review_id

\* insert_review: a name of None, and a NULL in a NOT NULL column, raise
\* sqlite3.Error before a row is written
insert_review(name, github_url) ==
    /\ calls.next_review_id <= MaxReviews
    /\ IF name = None \/ github_url = None
       THEN calls' = [calls EXCEPT !.op = "insert_review", !.arg = 0,
                                   !.outcome = "raise",
                                   !.error = "sqlite3.Error"]
       ELSE calls' = [calls EXCEPT
                        !.reviews = Append(@, [id |-> calls.next_review_id,
                                                name |-> name]),
                        !.next_review_id = @ + 1,
                        !.op = "insert_review",
                        !.arg = calls.next_review_id,
                        !.outcome = "return", !.error = ""]
    /\ ReviewsUnchanged

\* variant: the existence check lets every id through
review_missing_Never(reviews, review_id) == FALSE

\* c.fetchone() is None
review_missing(reviews, review_id) == ~ReviewExists(reviews, review_id)

\* insert_file: ValueError when the review does not exist, sqlite3.Error
\* when file_name is NULL, else one row
insert_file(review_id, file_name) ==
    /\ calls.next_file_id <= MaxFiles
    /\ IF review_missing(calls.reviews, review_id)
       THEN calls' = [calls EXCEPT !.op = "insert_file", !.arg = review_id,
                                   !.outcome = "raise",
                                   !.error = "ValueError"]
       ELSE IF file_name = None
       THEN calls' = [calls EXCEPT !.op = "insert_file", !.arg = review_id,
                                   !.outcome = "raise",
                                   !.error = "sqlite3.Error"]
       ELSE calls' = [calls EXCEPT
                        !.files = Append(@, [id |-> calls.next_file_id,
                                              review_id |-> review_id,
                                              file_name |-> file_name]),
                        !.next_file_id = @ + 1,
                        !.op = "insert_file", !.arg = review_id,
                        !.outcome = "return", !.error = ""]
    /\ ReviewsUnchanged

\* variant: the files of the review stay
delete_files_Keep(files, review_id) == files

\* DELETE FROM files WHERE review_id = ?
delete_files(files, review_id) ==
    SelectSeq(files, LAMBDA f : f.review_id # review_id)

\* delete_review: both DELETEs and the commit
delete_review(review_id) ==
    /\ calls' = [calls EXCEPT
                   !.files = delete_files(@, review_id),
                   !.reviews = SelectSeq(@, LAMBDA r : r.id # review_id),
                   !.op = "delete_review", !.arg = review_id,
                   !.outcome = "return", !.error = ""]
    /\ ReviewsUnchanged

InsertReview == \E name \in Names, github_url \in Names :
                    insert_review(name, github_url)

InsertFile == \E review_id \in ReviewIds, file_name \in Names :
                  insert_file(review_id, file_name)

DeleteReview == \E review_id \in ReviewIds : delete_review(review_id)

NextReviews == InsertReview \/ InsertFile \/ DeleteReview

SpecReviews == InitReviews /\ [][NextReviews]_vars





\* ================================================================ claims
SearchCalled   == last.op = "search"
SearchReturned == last.op = "search" /\ last.outcome = "return"
BuildCalled    == last.op = "build"
BuildReturned  == last.op = "build" /\ last.outcome = "return"

MappingOf(project_id) ==
    {m \in faiss_index_mapping : m.project_id = project_id}

IndexOf(project_id) == index_files[index_file_path(project_id)]

\* ids of the chunk rows the last build created
NewIds == last.first_id .. (last.first_id + Len(last.chunks) - 1)

SurvivingPlaces ==
    {i \in 1..Len(last.chunks) :
        /\ Len(embed_text(last.chunks[i].chunk_text))
              = Len(embed_text(last.chunks[1].chunk_text))
        /\ ~norm_is_zero(embed_text(last.chunks[i].chunk_text))}

Rank(i) == Cardinality({j \in SurvivingPlaces : j < i})

\* C2: after a successful build the project's IndexMapping rows are exactly
\* (i, chunk_id_i), i = 0..N-1, for the chunks whose vectors were added to
\* the index, in the order added; N counts the chunks of the run with the
\* run's dimension and non-zero norm, so N <= number of chunks of the run.
C2_MappingIsInsertionOrder ==
    BuildReturned =>
        /\ MappingOf(last.project_id) =
             {[project_id |-> last.project_id,
               faiss_index |-> Rank(i),
               chunk_id |-> last.first_id + i - 1] : i \in SurvivingPlaces}
        /\ Len(IndexOf(last.project_id).vectors) = Cardinality(SurvivingPlaces)
        /\ \A i \in SurvivingPlaces :
              IndexOf(last.project_id).vectors[Rank(i) + 1]
                 = embed_text(last.chunks[i].chunk_text)
        /\ {m.faiss_index : m \in MappingOf(last.project_id)}
              = 0..(Cardinality(SurvivingPlaces) - 1)
        /\ Cardinality(SurvivingPlaces) <= Len(last.chunks)

\* a successful build that left out its first chunk and indexed its second
C2_Witness ==
    /\ BuildReturned
    /\ Len(last.chunks) = 2
    /\ SurvivingPlaces = {2}
    /\ MappingOf(last.project_id) # {}

C4_AtMostKResolvableSorted ==
    SearchReturned =>
        /\ Len(last.results) <= last.top_k
        /\ \A j \in 1..Len(last.results) : ChunkExists(last.results[j].chunk_id)
        /\ \A j \in 1..(Len(last.results) - 1) :
              last.results[j].distance <= last.results[j + 1].distance

\* a search that returned two results at different distances
C4_Witness ==
    /\ SearchReturned
    /\ Len(last.results) = 2
    /\ last.results[1].distance < last.results[2].distance
    /\ last.results[1].chunk_id # last.results[2].chunk_id

C7_NotFoundFirst ==
    (SearchCalled /\ ~IndexOf(last.project_id).exists) =>
        /\ last.outcome = "raise"
        /\ last.error = "FileNotFoundError"
        /\ ~last.embedded
        /\ ~last.db_read

\* a search of a project that has chunk rows but no index file
C7_Witness ==
    /\ SearchCalled
    /\ last.error = "FileNotFoundError"
    /\ \E c \in 1..Len(file_chunks) : file_chunks[c].project_id = last.project_id

C10_OneGeneration ==
    BuildReturned =>
        /\ \A m \in MappingOf(last.project_id) : m.chunk_id \in NewIds
        /\ \A m1 \in MappingOf(last.project_id), m2 \in MappingOf(last.project_id) :
              m1.faiss_index = m2.faiss_index => m1 = m2

\* a second successful build: the project has an indexed chunk of an
\* earlier run
C10_Witness ==
    /\ BuildReturned
    /\ \E e \in 1..Len(file_chunk_embeddings) :
          /\ file_chunk_embeddings[e].chunk_id < last.first_id
          /\ ~norm_is_zero(file_chunk_embeddings[e].embedding)
          /\ ChunkRow(file_chunk_embeddings[e].chunk_id).project_id
                = last.project_id

NoVectors == ~last.service_up \/ last.chunks = <<>>

\* C12: build fails in exactly two cases: "no embeddings generated" when
\* the Embedding Generator returned no vectors, "no valid embeddings" when
\* no vector survived the dimension and zero-norm filters; otherwise it
\* persists the index and returns its path.
C12_TwoFatalConditions ==
    BuildCalled =>
        /\ NoVectors =>
              /\ last.outcome = "raise"
              /\ last.error = "ValueError: No embeddings generated"
        /\ (~NoVectors /\ SurvivingPlaces = {}) =>
              /\ last.outcome = "raise"
              /\ last.error = "ValueError: No valid embeddings"
        /\ (~NoVectors /\ SurvivingPlaces # {}) =>
              /\ last.outcome = "return"
              /\ last.index_file = index_file_path(last.project_id)
              /\ IndexOf(last.project_id).exists
        /\ last.outcome \in {"raise", "return"}

\* a build of two chunks, none of which survived the filters
C12_Witness ==
    /\ BuildCalled
    /\ Len(last.chunks) = 2
    /\ last.error = "ValueError: No valid embeddings"
    /\ ~IndexOf(last.project_id).exists

\* the last call was the index command
IndexCalled == last.op = "index"

\* C13: build_index(project_id) either returns the path of a persisted
\* index file or raises; for an invalid, unknown or missing id it raises and
\* never returns without a path.
C13_PathOrRaise ==
    IndexCalled =>
        \/ last.outcome = "raise"
        \/ /\ last.outcome = "return"
           /\ last.index_file \in Paths
           /\ index_files[last.index_file].exists

\* ---------------------------------------------------- segmentation claims
SegmentReturned == last.op = "segment" /\ last.outcome = "return"

\* the files of the repository handed to the last segment call: <<i, j>> is
\* the j-th file of directory Tree[i]
RepoFiles == {ij \in (DOMAIN Tree) \X (1..1) :
                ij[1] \in DOMAIN last.repo /\ ij[2] <= Len(last.repo[ij[1]])}

FileAt(ij) == last.repo[ij[1]][ij[2]]

PathOf(ij) == Append(Tree[ij[1]], FileAt(ij).name)

\* the chunks of the last result that carry the path, in list order
ChunksOfPath(rel_path) ==
    SelectSeq(last.all_chunks, LAMBDA c : c.file_path = rel_path)

\* the file passes the name filters and sits outside a directory whose
\* path ends with ".git"
PassesFilters(ij) ==
    /\ ~endswith_git(Tree[ij[1]])
    /\ ~is_ignored_file(FileAt(ij).name)
    /\ ~(last.ignore_tests /\ contains_test(FileAt(ij).name))

\* the lines of all chunks of a list, chunk after chunk
RECURSIVE LinesOfChunks(_)
LinesOfChunks(cs) ==
    IF cs = <<>> THEN <<>>
    ELSE readlines(Head(cs).chunk_text) \o LinesOfChunks(Tail(cs))

\* the chunk of the path with the given chunk_index
ChunkWithIndex(rel_path, n) ==
    SelectSeq(ChunksOfPath(rel_path), LAMBDA c : c.chunk_index = n)

RECURSIVE InIndexOrder(_, _, _)
InIndexOrder(rel_path, n, k) ==
    IF n >= k THEN <<>>
    ELSE ChunkWithIndex(rel_path, n) \o InIndexOrder(rel_path, n + 1, k)

\* C14: concatenating the chunks of a file in chunk_index order reproduces
\* the file's line sequence (max_chunk_size > 0).
C14_RoundTrip ==
    SegmentReturned =>
        \A ij \in RepoFiles :
            (PassesFilters(ij) /\ FileAt(ij).readable) =>
                LET cs == ChunksOfPath(PathOf(ij)) IN
                /\ LinesOfChunks(InIndexOrder(PathOf(ij), 0, Len(cs)))
                      = readlines(FileAt(ij).text)
                /\ join(LinesOfChunks(InIndexOrder(PathOf(ij), 0, Len(cs))))
                      = FileAt(ij).text

\* a file of five lines was cut into three chunks
C14_Witness ==
    /\ SegmentReturned
    /\ last.max_chunk_size = 2
    /\ \E ij \in RepoFiles :
          /\ Len(readlines(FileAt(ij).text)) = 5
          /\ \E n \in 1..5 : readlines(FileAt(ij).text)[n] # <<"\n">>
          /\ Len(ChunksOfPath(PathOf(ij))) = 3

\* ceil(n / m)
CeilDiv(n, m) == (n + m - 1) \div m

\* C15: a file of n lines yields k = ceil(n / max_chunk_size) chunks with
\* indexes 0..k-1; all but the last hold exactly max_chunk_size lines, the
\* last between 1 and max_chunk_size; a file of 0 lines yields no chunk.
C15_ChunkCounts ==
    SegmentReturned =>
        \A ij \in RepoFiles :
            (PassesFilters(ij) /\ FileAt(ij).readable) =>
                LET cs == ChunksOfPath(PathOf(ij))
                    n  == Len(readlines(FileAt(ij).text))
                    m  == last.max_chunk_size
                    k  == CeilDiv(n, m)
                    size(c) == Len(readlines(cs[c].chunk_text))
                IN /\ Len(cs) = k
                   /\ \A c \in 1..Len(cs) : cs[c].chunk_index = c - 1
                   /\ \A c \in 1..(Len(cs) - 1) : size(c) = m
                   /\ Len(cs) > 0 => /\ size(Len(cs)) >= 1
                                     /\ size(Len(cs)) <= m
                                     /\ size(Len(cs)) = n - (k - 1) * m
                   /\ n = 0 => cs = <<>>

\* five lines with max_chunk_size 2 give chunks of 2, 2 and 1 lines (450
\* lines with 200 give 200, 200 and 50), and an empty file was segmented
C15_Witness ==
    /\ SegmentReturned
    /\ last.max_chunk_size = 2
    /\ \E ij \in RepoFiles :
          LET cs == ChunksOfPath(PathOf(ij)) IN
          /\ Len(readlines(FileAt(ij).text)) = 5
          /\ Len(cs) = 3
          /\ Len(readlines(cs[1].chunk_text)) = 2
          /\ Len(readlines(cs[2].chunk_text)) = 2
          /\ Len(readlines(cs[3].chunk_text)) = 1

\* an empty file that passes the filters yields no chunk
C15_EmptyFileWitness ==
    /\ SegmentReturned
    /\ \E ij \in RepoFiles :
          /\ PassesFilters(ij) /\ FileAt(ij).readable
          /\ FileAt(ij).text = <<>>
          /\ last.all_chunks = <<>>

\* C16: no file under a .git directory, at any depth, is segmented.
C16_GitSkippedAtAnyDepth ==
    SegmentReturned =>
        \A c \in 1..Len(last.all_chunks) :
            LET rel_path == last.all_chunks[c].file_path IN
            \A n \in 1..(Len(rel_path) - 1) : rel_path[n] # ".git"

\* C17: a file that cannot be read is skipped alone: the call returns, the
\* file has no chunk, and every other file that passes the filters is
\* segmented in full.
C17_ReadFailureSkipsOneFile ==
    (last.op = "segment" /\ last.outcome # "") =>
        /\ last.outcome = "return"
        /\ \A ij \in RepoFiles :
              IF FileAt(ij).readable
              THEN PassesFilters(ij) =>
                      LinesOfChunks(ChunksOfPath(PathOf(ij)))
                          = readlines(FileAt(ij).text)
              ELSE ChunksOfPath(PathOf(ij)) = <<>>

\* an unreadable file at the root was opened, and a file of a directory
\* walked later was segmented
C17_Witness ==
    /\ SegmentReturned
    /\ \E ij \in RepoFiles :
          /\ ij[1] = 1
          /\ PassesFilters(ij)
          /\ ~FileAt(ij).readable
    /\ \E ij \in RepoFiles :
          /\ ij[1] > 1
          /\ FileAt(ij).readable
          /\ ChunksOfPath(PathOf(ij)) # <<>>

\* C18 as stated: an empty segmentation result is a degraded but valid
\* outcome for the indexing caller, which does not raise on its account.
C18_EmptySegmentationTolerated ==
    (BuildCalled /\ last.chunks = <<>>) => last.outcome # "raise"

\* C18 amended: a build handed an empty chunk list raises the
\* data-consistency error "No embeddings generated"; it has deleted the
\* IndexMapping rows of its project only, and leaves the chunk tables and
\* every index file as they were.
C18_EmptySegmentationRaises ==
    [][(last'.op = "build" /\ last'.chunks = <<>>) =>
          /\ last'.outcome = "raise"
          /\ last'.error = "ValueError: No embeddings generated"
          /\ faiss_index_mapping' =
                {m \in faiss_index_mapping : m.project_id # last'.project_id}
          /\ index_files' = index_files
          /\ file_chunks' = file_chunks
          /\ file_chunk_embeddings' = file_chunk_embeddings
          /\ next_id' = next_id]_vars

\* a build with no chunks and a working service, of a project that has an
\* index file, while another project has IndexMapping rows
C18_Witness ==
    /\ BuildCalled
    /\ last.chunks = <<>>
    /\ last.service_up
    /\ IndexOf(last.project_id).exists
    /\ MappingOf(last.project_id) = {}
    /\ faiss_index_mapping # {}

\* ------------------------------------------------------- embedding claims
EmbedCalled == last.op = "embed" /\ last.outcome # ""

C19_OrderWitness ==
    /\ EmbedCalled
    /\ last.service_up
    /\ \E i \in 1..Len(last.embeddings), j \in 1..Len(last.embeddings) :
          last.embeddings[i] # last.embeddings[j]

\* the sentinel all-zero vector of the fixed dimension
Sentinel == <<0>>

\* the text is empty or whitespace only
IsBlank(text) == text = ""

ChunksOfProject(chunks, project_id) ==
    SelectSeq(chunks, LAMBDA c : c.project_id = project_id)

\* the ChunkEmbedding rows of a project's chunks, in rowid order
EmbeddingsOfProject(embs, chunks, project_id) ==
    SelectSeq(embs, LAMBDA e : \E c \in 1..Len(chunks) :
                                  /\ chunks[c].id = e.chunk_id
                                  /\ chunks[c].project_id = project_id)

\* C22: build and search for project P leave the Chunk, ChunkEmbedding and
\* IndexMapping rows and the index file of every other project unchanged,
\* the index file path is a function of project_id alone, and search for P
\* returns only chunks of P.
C22_ProjectScoped ==
    [][last'.op \in {"build", "search"} =>
          /\ \A q \in Projects \ {last'.project_id} :
                /\ ChunksOfProject(file_chunks', q)
                      = ChunksOfProject(file_chunks, q)
                /\ EmbeddingsOfProject(file_chunk_embeddings', file_chunks', q)
                      = EmbeddingsOfProject(file_chunk_embeddings, file_chunks, q)
                /\ {m \in faiss_index_mapping' : m.project_id = q}
                      = {m \in faiss_index_mapping : m.project_id = q}
                /\ index_files'[index_file_path(q)]
                      = index_files[index_file_path(q)]
          /\ (last'.op = "build" /\ last'.outcome = "return") =>
                last'.index_file = index_file_path(last'.project_id)
          /\ \A r \in 1..Len(last'.results) :
                last'.results[r].project_id = last'.project_id]_vars

\* a search returned a chunk while the other project has rows, mapping and
\* an index file of its own
C22_Witness ==
    /\ SearchReturned
    /\ last.results # <<>>
    /\ \E q \in Projects \ {last.project_id} :
          /\ ChunksOfProject(file_chunks, q) # <<>>
          /\ MappingOf(q) # {}
          /\ IndexOf(q).exists

\* table `before` is kept, row for row, at the head of table `after`
KeptRows(before, after) ==
    /\ Len(after) >= Len(before)
    /\ \A i \in 1..Len(before) : after[i] = before[i]

\* C24: build never deletes or updates a Chunk or ChunkEmbedding row: the
\* Chunk rows of a project never get fewer across a build, and the rows of
\* earlier runs stay in the store next to the rows of the new run.
C24_RowsAccumulate ==
    [][last'.op = "build" =>
          /\ KeptRows(file_chunks, file_chunks')
          /\ KeptRows(file_chunk_embeddings, file_chunk_embeddings')
          /\ \A q \in Projects :
                Len(ChunksOfProject(file_chunks', q))
                    >= Len(ChunksOfProject(file_chunks, q))
          /\ last'.outcome = "return" =>
                Len(ChunksOfProject(file_chunks', last'.project_id))
                    = Len(ChunksOfProject(file_chunks, last'.project_id))
                        + Len(last'.chunks)]_vars

\* a second successful build of a project: the Chunk and ChunkEmbedding
\* rows of the first run are still there, the mapping names the new run only
C24_Witness ==
    /\ BuildReturned
    /\ \E c \in 1..Len(file_chunks) :
          /\ file_chunks[c].project_id = last.project_id
          /\ file_chunks[c].id < last.first_id
          /\ \E e \in 1..Len(file_chunk_embeddings) :
                file_chunk_embeddings[e].chunk_id = file_chunks[c].id
    /\ \E m \in faiss_index_mapping : m.project_id = last.project_id
    /\ \A m \in MappingOf(last.project_id) : m.chunk_id >= last.first_id

\* every Chunk row of the project was indexed by the run that wrote it: its
\* text has a non-zero vector of the one dimension the service answers with
AllRunsIndexed(project_id) ==
    \A c \in 1..Len(file_chunks) :
        file_chunks[c].project_id = project_id
            => file_chunks[c].chunk_text \in {"a", "b"}

\* the chunks of the project's most recent successful build, when every
\* run indexed all of its chunks: the chunks the IndexMapping rows name
LatestBuildIds(project_id) == {m.chunk_id : m \in MappingOf(project_id)}

InProgress(b) == calls[b].pc \in {"embed", "insert", "write", "map"}

\* b is the only connection that has run a build so far
Lone(b) == \A o \in Builders \ {b} : calls[o].pc = "idle"

\* the search resolved a position to a chunk that is not the chunk at that
\* position of the index it had read
WrongChunk(r) == r.chunk_id # calls[Searcher].index.ids[r.faiss_idx + 1]

FailedBuild(b) ==
    /\ calls[b].pc = "done"
    /\ calls[b].outcome = "raise"
    /\ calls[b].error \in {"ValueError: No embeddings generated",
                           "ValueError: No valid embeddings"}

C27_ReferencesExist ==
    /\ \A m \in faiss_index_mapping : ChunkExists(m.chunk_id)
    /\ \A e \in 1..Len(file_chunk_embeddings) :
          ChunkExists(file_chunk_embeddings[e].chunk_id)
    /\ \A e1 \in 1..Len(file_chunk_embeddings),
          e2 \in 1..Len(file_chunk_embeddings) :
            file_chunk_embeddings[e1].chunk_id
                = file_chunk_embeddings[e2].chunk_id => e1 = e2

\* delete_all_embeddings ran between the commit of a build's rows and its
\* mapping INSERTs, which the foreign key then rejected
C27_Witness ==
    \E b \in Builders :
        /\ calls[b].pc = "done"
        /\ calls[b].error = "IntegrityError"
        /\ calls[b].faiss_index_map # <<>>
        /\ \A j \in 1..Len(calls[b].faiss_index_map) :
              ~ChunkExists(calls[b].faiss_index_map[j])
        /\ faiss_index_mapping = {}

\* ------------------------------------------------- loop claim (C28)
\* C28: the chunking loop ends if and only if max_chunk_size >= 1 or the
\* file has no lines.  With max_chunk_size >= 1 the start offset grows with
\* every iteration and the loop is left after exactly
\* ceil(line_count / max_chunk_size) iterations; max_chunk_size <= 0 is
\* accepted, and then the loop of a file with lines is never left: its
\* condition stays true.
C28_LoopTerminatesIffPositiveSize ==
    /\ [][(calls.max_chunk_size >= 1 /\ calls'.chunk_index # calls.chunk_index)
             => calls'.chunk_start > calls.chunk_start]_vars
    /\ []((calls.pc = "done" /\ calls.max_chunk_size >= 1) =>
             /\ calls.chunk_index
                   = CeilDiv(Len(calls.lines), calls.max_chunk_size)
             /\ Len(calls.all_chunks) = calls.chunk_index)
    /\ ((calls.max_chunk_size >= 1 \/ calls.lines = <<>>)
           ~> calls.pc = "done")
    /\ []((calls.max_chunk_size <= 0 /\ calls.lines # <<>>) =>
             /\ calls.pc # "done"
             /\ calls.chunk_start < Len(calls.lines)
             /\ Len(calls.all_chunks) = calls.chunk_index)

\* max_chunk_size 0 and a file with lines: the loop has run more often
\* than the file has lines and its condition is still true
C28_Witness ==
    /\ calls.pc = "while"
    /\ calls.max_chunk_size = 0
    /\ calls.lines # <<>>
    /\ calls.chunk_index > Len(calls.lines)
    /\ calls.chunk_start < Len(calls.lines)

\* max_chunk_size 2 and a file of five lines: the loop was left after
\* three iterations
C28_TerminationWitness ==
    /\ calls.pc = "done"
    /\ calls.max_chunk_size = 2
    /\ Len(calls.lines) = 5
    /\ calls.chunk_index = 3

C29_CleanupOnReturnOnly ==
    calls.pc = "done" => (~calls.local_repo_path <=> calls.outcome = "return")

C29_ReturnWitness ==
    calls.pc = "done" /\ calls.outcome = "return" /\ ~calls.local_repo_path

\* the command left by the ValueError of an empty segmentation, and by an
\* exception of the index build, with the directory still on disk
C29_SegmentationRaisedWitness ==
    /\ calls.pc = "done"
    /\ calls.error = "ValueError: No code chunks were generated"
    /\ calls.local_repo_path

C29_BuildRaisedWitness ==
    /\ calls.pc = "done"
    /\ last.op = "build"
    /\ last.outcome = "raise"
    /\ calls.local_repo_path

\* ----------------------------------------------- reviews claim (C30)
\* C30: after any sequence of insert_review, insert_file and delete_review
\* calls every files row references an existing review; insert_file for a
\* review id that does not exist raises and inserts nothing; delete_review
\* removes the review and all of its files and no other row; delete_review
\* of an unknown id changes nothing and does not raise.
C30_FilesReferenceReviews ==
    /\ [](\A i \in 1..Len(calls.files) :
             ReviewExists(calls.reviews, calls.files[i].review_id))
    /\ [][(calls'.op = "insert_file"
             /\ ~ReviewExists(calls.reviews, calls'.arg)) =>
            /\ calls'.outcome = "raise"
            /\ calls'.error = "ValueError"
            /\ calls'.files = calls.files
            /\ calls'.reviews = calls.reviews]_vars
    /\ [][calls'.op = "delete_review" =>
            /\ calls'.outcome = "return"
            /\ ~ReviewExists(calls'.reviews, calls'.arg)
            /\ calls'.reviews =
                  SelectSeq(calls.reviews, LAMBDA r : r.id # calls'.arg)
            /\ calls'.files =
                  SelectSeq(calls.files, LAMBDA f : f.review_id # calls'.arg)
            /\ (~ReviewExists(calls.reviews, calls'.arg) =>
                  /\ calls'.reviews = calls.reviews
                  /\ calls'.files = calls.files)]_vars

\* delete_review has just removed a review that had files, and the files
\* of another review are still there
C30_Witness ==
    /\ calls.op = "delete_review"
    /\ calls.outcome = "return"
    /\ calls.arg < calls.next_review_id
    /\ ~ReviewExists(calls.reviews, calls.arg)
    /\ calls.files # <<>>
    /\ Len(calls.files) < calls.next_file_id - 1

\* insert_file for a review that was deleted has raised ValueError
C30_InsertRefusedWitness ==
    /\ calls.op = "insert_file"
    /\ calls.error = "ValueError"
    /\ calls.arg < calls.next_review_id
    /\ calls.files # <<>>

====
